---- MODULE Spec2Model ----
(***************************************************************************)
(* Chunked file transfer: FileTransferClient (src/cliente.py) streams a    *)
(* local file to FileTransferServicer (src/server.py) and may afterwards   *)
(* compare digests through GetFileInfo.                                     *)
(*                                                                         *)
(* One send_file call of one client is modelled together with the server   *)
(* handler it invokes, the upload directory, and other processes changing  *)
(* the source file while it is being streamed.                             *)
(***************************************************************************)
EXTENDS Integers, Sequences, FiniteSets, TLC

\* ---------------------------------------------------------------- bounds
MaxFileLen == 4        \* longest source file, in bytes
MaxChunkSize == 2      \* largest chunk_size a client is configured with
MaxEnvOps == 2         \* changes other processes make to the source file
MaxFaultAt == 2        \* latest write of a session that may be made to fail
MaxStreamLen == 2      \* chunks a client of a receiver session may send

\* ------------------------------------------------------------- constants
ReadBlock == 4096      \* f.read(4096) of the digest loops

Bytes == {0, 1}
FileNames == {"a.bin", "b.bin"}
Sessions == {1, 2}
None == "None"
Absent == <<-1>>
OldContent == <<2, 2>>   \* what an earlier upload may have left behind

VARIABLES
    \* --- sender's side (FileTransferClient)
    src,            \* content of the local file at file_path
    name,           \* Path(file_path).name
    chunk_size,     \* self.chunk_size
    sf_pc,          \* send_file: "init", "calling", "returned", "raised"
    sf_result,      \* what send_file returned: None, "True", "False"
    sf_exc,         \* the exception send_file caught, or None
    gen_pc,         \* _generate_file_chunks: "idle", "start", "read", "done",
                    \* "raised"
    file_size, total_chunks, chunk_number, bytes_sent,
    fpos,           \* offset of the generator's open file
    wire,           \* the chunks the generator has yielded, in order
    vf_result,      \* what verify_file returned: None, "True", "False"
    vf_info,        \* the FileInfoResponses verify_file has received
    \* --- receiver's side (FileTransferServicer)
    uploads,        \* upload_dir: filename -> content, or Absent
    open_handles,   \* filenames on which the session holds an open handle
    srv_pc,         \* TransferFile: "idle", "returned"
    consumed,       \* chunks the handler pulled out of request_iterator
    responses,      \* the TransferResponses the handler has returned
    \* --- environment
    write_fault,    \* k > 0: the k-th f.write of the session raises; 0: none
    env_ops,        \* changes made to the source file so far
    src_at_stat,    \* the source as it was when the generator measured it
    uploads0,       \* upload_dir as it was when the server started
    \* --- receiver's sessions fed by arbitrary clients
    streams,        \* session -> the chunks its client sends
    sess,           \* session -> the locals of its TransferFile call
    outs            \* session -> the TransferResponses it has returned

vars == <<src, name, chunk_size, sf_pc, sf_result, gen_pc, file_size,
          total_chunks, chunk_number, bytes_sent, fpos, wire, vf_result,
          uploads, open_handles, srv_pc, consumed, responses,
          write_fault, env_ops, src_at_stat, vf_info, uploads0,
          sf_exc, streams, sess, outs>>

\* the state of the sessions fed by arbitrary clients
recvVars == <<streams, sess, outs>>

\* ------------------------------------------------------------- helpers
SeqsUpTo(S, n) == UNION {[1..k -> S] : k \in 0..n}

Min(a, b) == IF a < b THEN a ELSE b

\* bytes [pos+1 .. pos+n] of a file, fewer at end of file: f.read(n)
Read(content, pos, n) == SubSeq(content, pos + 1, Min(Len(content), pos + n))

RECURSIVE Concat(_)
Concat(ss) == IF ss = <<>> THEN <<>> ELSE Head(ss) \o Concat(Tail(ss))

RECURSIVE SumLen(_)
SumLen(ss) == IF ss = <<>> THEN 0 ELSE Len(Head(ss)) + SumLen(Tail(ss))

Datas(chunks) == [i \in 1..Len(chunks) |-> chunks[i].data]

PyBool(b) == IF b THEN "True" ELSE "False"

CeilDiv(a, b) == (a + b - 1) \div b

\* ---------------------------------------------------------------- digest
\* hashlib.md5: update() folds the bytes of a block into the running state;
\* distinct contents within the bounds get distinct digests.
RECURSIVE Md5Update(_, _)
Md5Update(h, block) ==
    IF block = <<>> THEN h
    ELSE Md5Update(h * 4 + Head(block) + 1, Tail(block))

\* for chunk in iter(lambda: f.read(4096), b""): hash_md5.update(chunk)
RECURSIVE DigestFrom(_, _, _)
DigestFrom(content, pos, h) ==
    LET block == Read(content, pos, ReadBlock)
    IN  IF block = <<>> THEN h
        ELSE DigestFrom(content, pos + Len(block), Md5Update(h, block))

\* hexdigest() as a string; "" is <<>>
_calculate_md5(content) == <<DigestFrom(content, 0, 0)>>

\* ------------------------------------------------------------- producer
\* mutant: the division rounds down
TotalChunksFloor(size, csize) == size \div csize

TotalChunks(size, csize) == (size + csize - 1) \div csize

\* mutant: chunks numbered from 0
FileChunkZeroBased(fn, data, num, total, last) ==
    [filename |-> fn, data |-> data, chunk_number |-> num - 1,
     total_chunks |-> total, is_last_chunk |-> last]

FileChunk(fn, data, num, total, last) ==
    [filename |-> fn, data |-> data, chunk_number |-> num,
     total_chunks |-> total, is_last_chunk |-> last]

IsLast(num, total) == num = total

\* ------------------------------------------------------------- receiver
\* message is the exception of "Error: {str(e)}", or "ok"
TransferResponse(ok, msg, n) ==
    [success |-> ok, message |-> msg, bytes_received |-> n]

FileInfoResponse(e, size, sum) == [exists |-> e, file_size |-> size, checksum |-> sum]

\* line 32: the context manager of the with statement
WithItem(file_path) == IF file_path # None THEN file_path ELSE None

\* entering a with block needs an object with __enter__/__exit__
SupportsContext(cm) == cm # None

\* locals of TransferFile at the start of the try block
Locals0 ==
    [filename |-> None, f |-> None, total_bytes |-> 0, chunks_received |-> 0,
     uploads |-> uploads, handles |-> {}, pulled |-> 0, raised |-> FALSE]

\* first chunk: filename = chunk.filename; f = open(file_path, 'wb')
OpenFirst(st, chunk) ==
    IF st.filename = None
    THEN [st EXCEPT !.filename = chunk.filename, !.f = chunk.filename,
                    !.uploads[chunk.filename] = <<>>,
                    !.handles = @ \cup {chunk.filename}]
    ELSE st

\* f.write(chunk.data); total_bytes += len(chunk.data); chunks_received += 1
WriteChunk(st, chunk) ==
    [st EXCEPT !.uploads[st.f] = @ \o chunk.data,
               !.total_bytes = @ + Len(chunk.data),
               !.chunks_received = @ + 1]

\* for chunk in request_iterator: ... if chunk.is_last_chunk: break
RECURSIVE ReceiveLoop(_, _, _)
ReceiveLoop(chunks, i, st) ==
    IF i > Len(chunks) THEN st
    ELSE LET chunk == chunks[i]
             st1 == [OpenFirst(st, chunk) EXCEPT !.pulled = i]
         IN  IF write_fault = st1.chunks_received + 1
             THEN [st1 EXCEPT !.raised = TRUE]
             ELSE LET st2 == WriteChunk(st1, chunk)
                  IN  IF chunk.is_last_chunk THEN st2
                      ELSE ReceiveLoop(chunks, i + 1, st2)

\* if f: f.close()
CloseAfterLoop(st) ==
    IF st.f # None THEN [st EXCEPT !.handles = @ \ {st.f}] ELSE st

\* the request stream has ended: a flagged chunk or the end of the generator
StreamEnded ==
    \/ gen_pc = "done"
    \/ \E i \in 1..Len(wire) : wire[i].is_last_chunk

\* mutant: the digest loop also runs for a missing file
GetFileInfoEmptyDigest(fn) ==
    IF uploads[fn] # Absent
    THEN FileInfoResponse(TRUE, Len(uploads[fn]), _calculate_md5(uploads[fn]))
    ELSE FileInfoResponse(FALSE, 0, _calculate_md5(<<>>))

\* GetFileInfo(request)
GetFileInfo(fn) ==
    IF uploads[fn] # Absent
    THEN FileInfoResponse(TRUE, Len(uploads[fn]), _calculate_md5(uploads[fn]))
    ELSE FileInfoResponse(FALSE, 0, <<>>)

\* mutant: only the lengths of the two hex strings are compared
ChecksumsMatchLen(local, remote) == Len(local) = Len(remote)

\* if local_checksum == response.checksum
ChecksumsMatch(local, remote) == local = remote

\* mutant: send_file handles local I/O errors only
SendFileExceptOSErrorOnly(e) ==
    IF e = "OSError" THEN PyBool(FALSE) ELSE "raise"

\* the except clauses of send_file: the value returned for an exception
\* raised in the try block ("raise" if no clause matched)
SendFileExcept(e) ==
    IF e = "RpcError" THEN PyBool(FALSE)
    ELSE IF e \in {"OSError", "ZeroDivisionError"} THEN PyBool(FALSE)
    ELSE "raise"

\* ------------------------------------- receiver, one step at a time
\* locals of a TransferFile call that has not started; pos is the offset
\* of the handle f, pulled the chunks taken out of request_iterator
IdleSession ==
    [pc |-> "idle", filename |-> None, f |-> None, pos |-> 0,
     total_bytes |-> 0, chunks_received |-> 0, pulled |-> 0, exc |-> None]

\* what the clients of the two sessions may send: well-formed chunks,
\* chunks after a final one, a chunk for another filename, a chunk without
\* filename, chunks numbered 0 or beyond total_chunks
Chunks1 ==
    {FileChunk("a.bin", <<0>>, 1, 2, FALSE),
     FileChunk("a.bin", <<1>>, 2, 2, TRUE),
     FileChunk("a.bin", <<0>>, 1, 1, TRUE),
     FileChunk("b.bin", <<1>>, 2, 2, TRUE),
     FileChunk("", <<0>>, 1, 2, FALSE),
     FileChunk("a.bin", <<0>>, 0, 2, FALSE),
     FileChunk("a.bin", <<1>>, 3, 2, TRUE)}

Chunks2 ==
    {FileChunk("b.bin", <<1>>, 1, 1, TRUE),
     FileChunk("a.bin", <<1>>, 1, 2, FALSE),
     FileChunk("a.bin", <<1>>, 2, 2, TRUE)}

\* the write fault of the environment hits the first session
FaultOf(s) == IF s = 1 THEN write_fault ELSE 0

\* mutant: only I/O errors are handled
TransferFileCatchesOSError(e) == e \in {"OSError", "IsADirectoryError"}

\* except Exception as e
TransferFileCatches(e) == e \in {"TypeError", "OSError", "IsADirectoryError"}

\* mutant: the failure outcome reports a counter kept on the servicer,
\* shared by all sessions
RaiseSharedCounter(st, dir, e) ==
    [st |-> [st EXCEPT !.pc = "returned", !.exc = e], dir |-> dir,
     out |-> <<TransferResponse(FALSE, e,
                  Cardinality({t \in Sessions : outs[t] # <<>>}))>>]

\* an exception inside the try block: the handler returns the failure
\* outcome, or the exception leaves the handler
Raise(st, dir, e) ==
    IF TransferFileCatches(e)
    THEN [st |-> [st EXCEPT !.pc = "returned", !.exc = e], dir |-> dir,
          out |-> <<TransferResponse(FALSE, e, st.total_bytes)>>]
    ELSE [st |-> [st EXCEPT !.pc = "crashed", !.exc = e], dir |-> dir,
          out |-> <<>>]

\* if f: f.close(), then return TransferResponse(success=True, ...)
Finish(st, dir) ==
    [st |-> [st EXCEPT !.pc = "returned", !.f = None], dir |-> dir,
     out |-> <<TransferResponse(TRUE, "ok", st.total_bytes)>>]

\* f.write(data) through a handle at offset pos of a file that another
\* handle may have truncated meanwhile
WriteAt(content, pos, data) ==
    LET padded == content \o [i \in 1..(pos - Len(content)) |-> 0]
    IN  SubSeq(padded, 1, pos) \o data
           \o SubSeq(padded, pos + Len(data) + 1, Len(padded))

\* one step of TransferFile on the upload directory dir: entering the with
\* statement, or one turn of the for loop
HandlerStep(st, dir, chunks, fault) ==
    IF st.pc = "idle"
    THEN IF ~SupportsContext(WithItem(None))
         THEN Raise(st, dir, "TypeError")
         ELSE [st |-> [st EXCEPT !.pc = "loop"], dir |-> dir, out |-> <<>>]
    ELSE IF st.pulled = Len(chunks)
    THEN Finish(st, dir)
    ELSE LET chunk == chunks[st.pulled + 1]
             st1 == [st EXCEPT !.pulled = @ + 1]
             first == st1.filename = None
         IN  IF first /\ chunk.filename = ""
             THEN \* open(self.upload_dir / "", 'wb')
                  Raise([st1 EXCEPT !.filename = ""], dir, "IsADirectoryError")
             ELSE LET st2 == IF first
                             THEN [st1 EXCEPT !.filename = chunk.filename,
                                              !.f = chunk.filename, !.pos = 0]
                             ELSE st1
                      dir2 == IF first
                              THEN [dir EXCEPT ![chunk.filename] = <<>>]
                              ELSE dir
                  IN  IF fault = st2.chunks_received + 1
                      THEN Raise(st2, dir2, "OSError")
                      ELSE LET st3 == [st2 EXCEPT
                                         !.pos = @ + Len(chunk.data),
                                         !.total_bytes = @ + Len(chunk.data),
                                         !.chunks_received = @ + 1]
                               dir3 == [dir2 EXCEPT ![st2.f] =
                                          WriteAt(@, st2.pos, chunk.data)]
                           IN  IF chunk.is_last_chunk
                               THEN Finish(st3, dir3)
                               ELSE [st |-> st3, dir |-> dir3, out |-> <<>>]

\* the whole handler on an upload directory no other session touches
RECURSIVE RunAlone(_, _, _, _)
RunAlone(st, dir, chunks, fault) ==
    LET r == HandlerStep(st, dir, chunks, fault)
    IN  IF r.st.pc \in {"returned", "crashed"} THEN r
        ELSE RunAlone(r.st, r.dir, chunks, fault)

\* ----------------------------------------------------------------- Init
\* upload_dir with at most one file, under the client's filename
UploadDir(c) == [fn \in FileNames |-> IF fn = name THEN c ELSE Absent]

\* a new client and a server whose upload directory is empty, holds an old
\* file or (withCopy) holds a copy of the source
StartState(withCopy) ==
    /\ src \in SeqsUpTo(Bytes, MaxFileLen)
    /\ name = "a.bin"
    /\ chunk_size \in 1..MaxChunkSize
    /\ sf_pc = "init" /\ sf_result = None
    /\ gen_pc = "idle"
    /\ file_size = 0 /\ total_chunks = 0 /\ chunk_number = 0 /\ bytes_sent = 0
    /\ fpos = 0 /\ wire = <<>>
    /\ vf_result = None
    /\ vf_info = <<>>
    /\ \/ uploads = UploadDir(Absent)
       \/ uploads = UploadDir(OldContent)
       \/ withCopy /\ uploads = UploadDir(src)
    /\ uploads0 = uploads
    /\ sf_exc = None
    /\ open_handles = {}
    /\ srv_pc = "idle" /\ consumed = 0 /\ responses = <<>>
    /\ write_fault \in 0..MaxFaultAt
    /\ env_ops = 0
    /\ src_at_stat = src
    /\ streams = [s \in Sessions |-> <<>>]
    /\ sess = [s \in Sessions |-> IdleSession]
    /\ outs = [s \in Sessions |-> <<>>]

Init == StartState(FALSE)

\* the same with a copy of the source possibly in the upload directory
InitVerify == StartState(TRUE)

\* -------------------------------------------------------------- actions
\* send_file up to stub.TransferFile(self._generate_file_chunks(file_path))
SendFileCall ==
    /\ sf_pc = "init"
    /\ sf_pc' = "calling"
    /\ gen_pc' = "start"
    /\ UNCHANGED <<src, name, chunk_size, sf_result, file_size, total_chunks,
                   chunk_number, bytes_sent, fpos, wire, vf_result, uploads,
                   open_handles, srv_pc, consumed, responses, write_fault,
                   env_ops, src_at_stat>>
    /\ UNCHANGED <<vf_info, uploads0, sf_exc, recvVars>>

\* _generate_file_chunks, lines 40-52: stat, total_chunks, open
GenStart ==
    /\ sf_pc = "calling" /\ gen_pc = "start"
    /\ file_size' = Len(src)
    /\ total_chunks' = TotalChunks(Len(src), chunk_size)
    /\ chunk_number' = 0 /\ bytes_sent' = 0 /\ fpos' = 0
    /\ src_at_stat' = src
    /\ gen_pc' = "read"
    /\ UNCHANGED <<src, name, chunk_size, sf_pc, sf_result, wire, vf_result,
                   uploads, open_handles, srv_pc, consumed, responses,
                   write_fault, env_ops>>
    /\ UNCHANGED <<vf_info, uploads0, sf_exc, recvVars>>

\* one turn of the while loop, lines 53-76
GenRead ==
    /\ sf_pc = "calling" /\ gen_pc = "read"
    /\ LET chunk_data == Read(src, fpos, chunk_size)
           is_last == IsLast(chunk_number + 1, total_chunks)
       IN  IF chunk_data = <<>>
           THEN /\ gen_pc' = "done"
                /\ UNCHANGED <<chunk_number, bytes_sent, fpos, wire>>
           ELSE /\ chunk_number' = chunk_number + 1
                /\ bytes_sent' = bytes_sent + Len(chunk_data)
                /\ fpos' = fpos + Len(chunk_data)
                /\ wire' = Append(wire, FileChunk(name, chunk_data, chunk_number + 1,
                                                  total_chunks, is_last))
                /\ gen_pc' = IF is_last THEN "done" ELSE "read"
    /\ UNCHANGED <<src, name, chunk_size, sf_pc, sf_result, file_size,
                   total_chunks, vf_result, uploads, open_handles, srv_pc,
                   consumed, responses, write_fault, env_ops, src_at_stat>>
    /\ UNCHANGED <<vf_info, uploads0, sf_exc, recvVars>>

\* another process shortens the source file while it is streamed
SrcTruncate ==
    /\ gen_pc = "read" /\ env_ops < MaxEnvOps
    /\ \E n \in 0..(Len(src) - 1) : src' = SubSeq(src, 1, n)
    /\ env_ops' = env_ops + 1
    /\ UNCHANGED <<name, chunk_size, sf_pc, sf_result, gen_pc, file_size,
                   total_chunks, chunk_number, bytes_sent, fpos, wire,
                   vf_result, uploads, open_handles, srv_pc, consumed,
                   responses, write_fault, src_at_stat>>
    /\ UNCHANGED <<vf_info, uploads0, sf_exc, recvVars>>

\* another process appends to the source file while it is streamed
SrcAppend ==
    /\ gen_pc = "read" /\ env_ops < MaxEnvOps
    /\ \E more \in SeqsUpTo(Bytes, MaxFileLen - Len(src)) :
           more # <<>> /\ src' = src \o more
    /\ env_ops' = env_ops + 1
    /\ UNCHANGED <<name, chunk_size, sf_pc, sf_result, gen_pc, file_size,
                   total_chunks, chunk_number, bytes_sent, fpos, wire,
                   vf_result, uploads, open_handles, srv_pc, consumed,
                   responses, write_fault, src_at_stat>>
    /\ UNCHANGED <<vf_info, uploads0, sf_exc, recvVars>>

\* FileTransferServicer.TransferFile, the whole handler
TransferFile ==
    /\ sf_pc = "calling" /\ srv_pc = "idle"
    /\ IF ~SupportsContext(WithItem(None))
       THEN \* the with statement raises; except Exception returns the failure
            /\ responses' = Append(responses, TransferResponse(FALSE, "TypeError",
                                                            Locals0.total_bytes))
            /\ UNCHANGED <<uploads, open_handles, consumed>>
       ELSE /\ StreamEnded
            /\ LET st == ReceiveLoop(wire, 1, Locals0)
                   fin == IF st.raised THEN st ELSE CloseAfterLoop(st)
               IN  /\ responses' = Append(responses,
                          TransferResponse(~st.raised,
                                           IF st.raised THEN "OSError" ELSE "ok",
                                           st.total_bytes))
                   /\ uploads' = fin.uploads
                   /\ open_handles' = fin.handles
                   /\ consumed' = fin.pulled
    /\ srv_pc' = "returned"
    /\ UNCHANGED <<src, name, chunk_size, sf_pc, sf_result, gen_pc, file_size,
                   total_chunks, chunk_number, bytes_sent, fpos, wire,
                   vf_result, write_fault, env_ops, src_at_stat>>
    /\ UNCHANGED <<vf_info, uploads0, sf_exc, recvVars>>

\* send_file, lines 91-103: the response arrives
SendFileReturn ==
    /\ sf_pc = "calling" /\ responses # <<>>
    /\ sf_result' = PyBool(responses[1].success)
    /\ sf_pc' = "returned"
    /\ UNCHANGED <<src, name, chunk_size, gen_pc, file_size, total_chunks,
                   chunk_number, bytes_sent, fpos, wire, vf_result, uploads,
                   open_handles, srv_pc, consumed, responses, write_fault,
                   env_ops, src_at_stat>>
    /\ UNCHANGED <<vf_info, uploads0, sf_exc, recvVars>>

\* verify_file(filename, local_path); the request may raise
VerifyFile ==
    /\ sf_pc = "returned" /\ vf_result = None
    /\ \E rpc_ok \in BOOLEAN :
          IF rpc_ok
          THEN LET info == GetFileInfo(name)
               IN  /\ vf_info' = Append(vf_info, info)
                   /\ vf_result' =
                          IF info.exists
                          THEN PyBool(ChecksumsMatch(_calculate_md5(src), info.checksum))
                          ELSE PyBool(FALSE)
          ELSE \* except Exception: return False
               /\ vf_info' = vf_info
               /\ vf_result' = PyBool(FALSE)
    /\ UNCHANGED <<src, name, chunk_size, sf_pc, sf_result, gen_pc, file_size,
                   total_chunks, chunk_number, bytes_sent, fpos, wire, uploads,
                   open_handles, srv_pc, consumed, responses, write_fault,
                   env_ops, src_at_stat>>
    /\ UNCHANGED <<uploads0, sf_exc, recvVars>>

\* another process changes one byte of the stored copy after the transfer
StoredCorrupt ==
    /\ sf_pc = "returned" /\ vf_result = None
    /\ uploads[name] # Absent /\ uploads[name] = uploads0[name]
    /\ \E i \in 1..Len(uploads[name]) : \E b \in Bytes :
          /\ b # uploads[name][i]
          /\ uploads' = [uploads EXCEPT ![name][i] = b]
    /\ UNCHANGED <<src, name, chunk_size, sf_pc, sf_result, gen_pc, file_size,
                   total_chunks, chunk_number, bytes_sent, fpos, wire,
                   vf_result, open_handles, srv_pc, consumed, responses,
                   write_fault, env_ops, src_at_stat>>
    /\ UNCHANGED <<vf_info, uploads0, sf_exc, recvVars>>

Next ==
    \/ SendFileCall
    \/ GenStart
    \/ GenRead
    \/ SrcTruncate
    \/ SrcAppend
    \/ TransferFile
    \/ SendFileReturn
    \/ VerifyFile

Spec == Init /\ [][Next]_vars

\* stat, open or read of the source raises inside _generate_file_chunks
GenFault ==
    /\ sf_pc = "calling" /\ gen_pc \in {"start", "read"}
    /\ gen_pc' = "raised"
    /\ UNCHANGED <<src, name, chunk_size, sf_pc, sf_result, file_size,
                   total_chunks, chunk_number, bytes_sent, fpos, wire,
                   vf_result, uploads, open_handles, srv_pc, consumed,
                   responses, write_fault, env_ops, src_at_stat>>
    /\ UNCHANGED <<vf_info, uploads0, sf_exc, recvVars>>

\* stub.TransferFile raises grpc.RpcError: the connection broke, the call
\* timed out, or the request iterator raised and the call was cancelled
SendFileRpcError ==
    /\ sf_pc = "calling" /\ responses = <<>>
    /\ LET handled == SendFileExcept("RpcError")
       IN  IF handled = "raise"
           THEN sf_pc' = "raised" /\ sf_result' = sf_result
           ELSE sf_pc' = "returned" /\ sf_result' = handled
    /\ sf_exc' = "RpcError"
    /\ UNCHANGED <<src, name, chunk_size, gen_pc, file_size, total_chunks,
                   chunk_number, bytes_sent, fpos, wire, vf_result, uploads,
                   open_handles, srv_pc, consumed, responses, write_fault,
                   env_ops, src_at_stat>>
    /\ UNCHANGED <<vf_info, uploads0, recvVars>>

\* a transfer over a transport that may fail, from a source that may
\* become unreadable
NextFault ==
    \/ SendFileCall
    \/ GenStart
    \/ GenRead
    \/ GenFault
    \/ TransferFile
    \/ SendFileReturn
    \/ SendFileRpcError

SpecFault == Init /\ [][NextFault]_vars

\* the Receiver with one TransferFile call per session, the client silent
InitRecv ==
    /\ src = <<>> /\ name = "a.bin" /\ chunk_size = 1
    /\ sf_pc = "init" /\ sf_result = None /\ sf_exc = None
    /\ gen_pc = "idle"
    /\ file_size = 0 /\ total_chunks = 0 /\ chunk_number = 0
    /\ bytes_sent = 0 /\ fpos = 0
    /\ wire = <<>>
    /\ vf_result = None /\ vf_info = <<>>
    /\ \/ uploads = UploadDir(Absent)
       \/ uploads = UploadDir(OldContent)
    /\ uploads0 = uploads
    /\ open_handles = {}
    /\ srv_pc = "idle" /\ consumed = 0 /\ responses = <<>>
    /\ write_fault \in 0..MaxFaultAt
    /\ env_ops = 0 /\ src_at_stat = src
    /\ streams \in {[s \in Sessions |-> IF s = 1 THEN c1 ELSE c2] :
                       c1 \in SeqsUpTo(Chunks1, MaxStreamLen),
                       c2 \in SeqsUpTo(Chunks2, MaxStreamLen)}
    /\ sess = [s \in Sessions |-> IdleSession]
    /\ outs = [s \in Sessions |-> <<>>]

\* one step of the TransferFile call of session s, on the shared upload_dir
TransferFileStep(s) ==
    /\ sess[s].pc \in {"idle", "loop"}
    /\ LET r == HandlerStep(sess[s], uploads, streams[s], FaultOf(s))
       IN  /\ sess' = [sess EXCEPT ![s] = r.st]
           /\ uploads' = r.dir
           /\ outs' = [outs EXCEPT ![s] = @ \o r.out]
    /\ UNCHANGED <<src, name, chunk_size, sf_pc, sf_result, gen_pc, file_size,
                   total_chunks, chunk_number, bytes_sent, fpos, wire,
                   vf_result, open_handles, srv_pc, consumed, responses,
                   write_fault, env_ops, src_at_stat>>
    /\ UNCHANGED <<vf_info, uploads0, sf_exc, streams>>

NextRecv == \E s \in Sessions : TransferFileStep(s)

SpecRecv == InitRecv /\ [][NextRecv]_vars

\* the verification exchange after a send_file, the stored copy at the mercy
\* of other processes
NextVerify ==
    \/ SendFileCall
    \/ TransferFile
    \/ SendFileReturn
    \/ StoredCorrupt
    \/ VerifyFile

SpecVerify == InitVerify /\ [][NextVerify]_vars

\* ======================================================== properties
Returned == srv_pc = "returned"
Outcome == responses[1]
Produced == gen_pc = "done"
Stable == env_ops = 0
NoFinalFlag == \A i \in 1..Len(wire) : ~wire[i].is_last_chunk
Prefix(chunks, k) == SubSeq(chunks, 1, k)

\* C1: a non-empty stream delivered in order whose last chunk is flagged
\* final, with no I/O fault, ends in an outcome with success = true and
\* bytes_received = the sum of the data lengths of its chunks.
C1_HappyPathSucceeds ==
    (/\ Returned /\ Produced
     /\ wire # <<>> /\ wire[Len(wire)].is_last_chunk
     /\ write_fault = 0)
    => /\ Outcome.success
       /\ Outcome.bytes_received = SumLen(Datas(wire))

\* C3: for a file of size S and chunk size C the producer emits exactly
\* ceil(S/C) chunks, all of size C except the last, which has size S mod C
\* (C when C divides S).
C3_ChunkCount ==
    (Produced /\ Stable)
    => LET S == Len(src)
           C == chunk_size
           n == Len(wire)
       IN  /\ n = CeilDiv(S, C)
           /\ \A i \in 1..(n - 1) : Len(wire[i].data) = C
           /\ n > 0 => Len(wire[n].data) = (IF S % C = 0 THEN C ELSE S % C)

C3_Witness ==
    /\ Produced /\ Stable
    /\ Len(wire) >= 2
    /\ Len(src) % chunk_size # 0

\* C4: when an earlier read returned fewer bytes than chunk_size, is_final is
\* still true on exactly the last emitted chunk (the one whose number is
\* total_chunks) and that chunk carries the last bytes of the file.
C4_FinalFlagAfterShortRead ==
    (/\ Produced
     /\ \E i \in 1..(Len(wire) - 1) : Len(wire[i].data) < chunk_size)
    => LET n == Len(wire)
       IN  /\ \A i \in 1..n : wire[i].is_last_chunk <=> i = n
           /\ \A i \in 1..n :
                  wire[i].is_last_chunk <=> wire[i].chunk_number = wire[i].total_chunks
           /\ fpos = Len(src)
           /\ wire[n].data = SubSeq(src, Len(src) - Len(wire[n].data) + 1, Len(src))

C6_OrderPreserved ==
    (/\ Returned /\ Produced
     /\ wire # <<>>
     /\ write_fault = 0)
    => uploads[name] = Concat(Datas(wire))

\* C8: when the write of chunk k+1 fails, the outcome has success = false and
\* bytes_received = the data length of the first k chunks, and those k
\* chunks stay on disk.
C8_PartialCount ==
    (/\ Returned /\ Produced
     /\ write_fault > 0 /\ write_fault <= Len(wire))
    => LET written == Datas(Prefix(wire, write_fault - 1))
       IN  /\ ~Outcome.success
           /\ Outcome.bytes_received = SumLen(written)
           /\ written # <<>> => uploads[name] = Concat(written)

\* C9: a stream that ends after at least one chunk without a final flag
\* still ends the session cleanly: destination closed, the bytes received
\* kept as the file, bytes_received = the total of the chunks received.
C9_ExhaustedWithoutFinal ==
    (/\ Returned /\ Produced
     /\ wire # <<>> /\ NoFinalFlag
     /\ write_fault = 0)
    => /\ open_handles = {}
       /\ uploads[name] = Concat(Datas(wire))
       /\ Outcome.bytes_received = SumLen(Datas(wire))

\* C10: a 0-byte source gives total_chunks = 0 and no chunk, and the Receiver
\* answers the empty stream with success = true and bytes_received = 0
\* without opening a destination.
C10_ZeroByteFile ==
    (/\ Returned /\ Produced /\ Stable
     /\ Len(src) = 0)
    => /\ total_chunks = 0 /\ wire = <<>>
       /\ Outcome.success
       /\ Outcome.bytes_received = 0
       /\ open_handles = {} /\ consumed = 0

\* C11: verify_file returns true exactly when the request succeeds, the file
\* exists on the Receiver and its checksum equals the digest of the local
\* file; the checksum returned is that of the stored file's current content.
C11_VerifyIff ==
    [][(vf_result = None /\ vf_result' # None)
       => LET answered == vf_info' # vf_info
              stored == uploads[name]
          IN  /\ vf_result' = "True"
                     <=> (/\ answered /\ stored # Absent
                          /\ _calculate_md5(stored) = _calculate_md5(src))
              /\ vf_result' = "True" => stored = src
              /\ (answered /\ stored # Absent)
                     => vf_info'[Len(vf_info')].checksum = _calculate_md5(stored)]_vars

C11_Witness ==
    /\ vf_result = "True"
    /\ vf_info # <<>> /\ vf_info[1].exists

\* C12: GetFileInfo for a filename never written returns exactly
\* {exists: false, file_size: 0, checksum: ""}; exists = false always comes
\* with file_size = 0 and checksum = ""; no stored file is changed.
C12_MissingFile ==
    /\ [](\A i \in 1..Len(vf_info) :
             ~vf_info[i].exists
                => vf_info[i].file_size = 0 /\ vf_info[i].checksum = <<>>)
    /\ [][vf_info' # vf_info
           => /\ uploads' = uploads
              /\ uploads[name] = Absent
                    => vf_info'[Len(vf_info')] =
                          [exists |-> FALSE, file_size |-> 0, checksum |-> <<>>]]_vars

C12_Witness ==
    /\ vf_info # <<>>
    /\ ~vf_info[1].exists
    /\ uploads0[name] = Absent

SendReturned == sf_pc = "returned"

\* C13: send_file never propagates a fault: after a transport failure or a
\* read error of the producer it returns False; it returns True only if
\* the Receiver's outcome has success = true, and False whenever the
\* outcome has success = false.
C13_NoFaultPropagates ==
    /\ sf_pc # "raised"
    /\ SendReturned =>
          /\ sf_result \in {"True", "False"}
          /\ sf_exc # None => sf_result = "False"
          /\ gen_pc = "raised" => sf_result = "False"
          /\ sf_result = "True" => responses # <<>> /\ responses[1].success
          /\ (responses # <<>> /\ ~responses[1].success) => sf_result = "False"

C13_Witness ==
    /\ SendReturned /\ sf_exc = "RpcError" /\ gen_pc = "raised"
    /\ wire # <<>> /\ sf_result = "False"

\* ------------------------------------------- receiver sessions
SessReturned(s) == sess[s].pc = "returned"
SessName(s) == streams[s][1].filename
Named(s) == streams[s] # <<>> /\ SessName(s) \in FileNames
Other(s) == CHOOSE t \in Sessions : t # s
\* no other session receives chunks for the filename of session s
OwnName(s) == Named(s) /\ (streams[Other(s)] = <<>> \/ SessName(Other(s)) # SessName(s))
\* position of the first chunk flagged final, 0 if there is none
FirstFinal(chunks) ==
    IF \E i \in 1..Len(chunks) : chunks[i].is_last_chunk
    THEN CHOOSE i \in 1..Len(chunks) :
            /\ chunks[i].is_last_chunk
            /\ \A j \in 1..(i - 1) : ~chunks[j].is_last_chunk
    ELSE 0
\* the chunks of a stream up to and including the first final one
UpToFinal(chunks) ==
    IF FirstFinal(chunks) = 0 THEN chunks ELSE Prefix(chunks, FirstFinal(chunks))
\* the codec invariants of a chunk
WellFormed(chunk, first) ==
    /\ first => chunk.filename # ""
    /\ chunk.chunk_number >= 1
    /\ chunk.chunk_number <= chunk.total_chunks
Malformed(chunks) == \E i \in 1..Len(chunks) : ~WellFormed(chunks[i], i = 1)

\* C14: every TransferFile session returns exactly one outcome, only after
\* it consumed a final chunk, after the incoming sequence is exhausted or
\* after a fault, and never raises to the transport.
C14_OneOutcome ==
    \A s \in Sessions :
        /\ sess[s].pc # "crashed"
        /\ Len(outs[s]) <= 1
        /\ SessReturned(s) <=> Len(outs[s]) = 1
        /\ outs[s] # <<>> =>
              /\ \/ sess[s].exc # None
                 \/ sess[s].pulled = Len(streams[s])
                 \/ sess[s].pulled > 0 /\ streams[s][sess[s].pulled].is_last_chunk
              /\ outs[s][1].success <=> sess[s].exc = None

C14_Witness ==
    /\ \A s \in Sessions : SessReturned(s) /\ Len(outs[s]) = 1
    /\ Len(streams[1]) >= 2 /\ FirstFinal(streams[1]) > 0

\* C15: with pairwise different filenames, each session ends with the
\* outcome, the byte counters and the destination file it would have had
\* if it had run alone, whatever happens to the other session.
C15_SessionIsolation ==
    (\A s \in Sessions : OwnName(s))
    => \A s \in Sessions :
          SessReturned(s)
          => LET alone == RunAlone(IdleSession, uploads0, streams[s], FaultOf(s))
             IN  /\ outs[s] = alone.out
                 /\ sess[s].total_bytes = alone.st.total_bytes
                 /\ sess[s].chunks_received = alone.st.chunks_received
                 /\ uploads[SessName(s)] = alone.dir[SessName(s)]

C15_Witness ==
    /\ \A s \in Sessions : OwnName(s) /\ SessReturned(s)
    /\ ~outs[1][1].success
    /\ Len(streams[2]) >= 2

\* C16: two sessions for the same filename dispatched concurrently both run
\* to the end of their streams and both report success = true (while their
\* writes interleave in the one destination).
C16_CollisionRace ==
    (/\ \A s \in Sessions : Named(s) /\ SessReturned(s)
     /\ SessName(1) = SessName(2)
     /\ write_fault = 0)
    => \A s \in Sessions : outs[s][1].success

\* C17: a session that is sent a chunk violating the codec invariants is
\* aborted with a failed outcome that rejects the chunk as malformed, and
\* no chunk is consumed.
C17_ChunkValidation ==
    \A s \in Sessions :
        (SessReturned(s) /\ Malformed(streams[s]))
        => /\ ~outs[s][1].success
           /\ outs[s][1].message = "MalformedChunk"
           /\ sess[s].chunks_received = 0

\* C18: when the source becomes shorter than the size measured at the start
\* while it is streamed, the production aborts with a failure and no chunk
\* flagged final is emitted.
C18_TruncatedSourceAborts ==
    (/\ gen_pc \notin {"idle", "start", "read"}
     /\ Len(src) < Len(src_at_stat))
    => /\ gen_pc = "raised"
       /\ NoFinalFlag

\* C19: after a session that was sent chunks for a filename under which a
\* file was stored before, the stored file contains exactly the data of
\* this session's chunks and nothing of the prior content.
C19_FreshDestination ==
    \A s \in Sessions :
        (/\ SessReturned(s) /\ OwnName(s)
         /\ FaultOf(s) = 0
         /\ uploads0[SessName(s)] # Absent)
        => uploads[SessName(s)] = Concat(Datas(UpToFinal(streams[s])))

\* C20: of a stream with chunks after the one flagged final, only the chunks
\* up to and including the final one are read, counted in bytes_received
\* and written, all to the destination named by the first chunk.
C20_NothingAfterFinal ==
    \A s \in Sessions :
        (/\ SessReturned(s) /\ OwnName(s)
         /\ FaultOf(s) = 0
         /\ FirstFinal(streams[s]) > 0
         /\ FirstFinal(streams[s]) < Len(streams[s]))
        => LET taken == UpToFinal(streams[s])
           IN  /\ sess[s].pulled <= Len(taken)
               /\ outs[s][1].bytes_received = SumLen(Datas(taken))
               /\ uploads[SessName(s)] = Concat(Datas(taken))

====
